---- MODULE Spec2Model ----
(***************************************************************************)
(* examples/entailment/entailment_xnli_bert_azureml.ipynb                  *)
(*                                                                         *)
(* The notebook is a sequence of cells run top to bottom by one kernel.    *)
(* pc names the cell about to run.  An exception raised by a cell stops    *)
(* the run at that cell (pc = "halted").  The remote side (the compute     *)
(* cluster and the submitted run) moves on its own between the cells.      *)
(*                                                                         *)
(* Three further specifications exercise one part each from arbitrary      *)
(* inputs: SpecPackager (the staging cells, re-executed), SpecReport (the  *)
(* report cell on arbitrary results documents) and SpecTrain (the worker   *)
(* processes running train.py).                                            *)
(***************************************************************************)
EXTENDS Integers, Sequences, FiniteSets, TLC

VARIABLES
    DEBUG,            \* notebook parameter, line 65
    NODE_COUNT,       \* notebook parameter, line 66
    config_file,      \* TRUE iff config_path holds a config.json
    params_given,     \* TRUE iff the explicit Azure resource ids are usable
    pc,               \* the cell about to run, "done" or "halted"
    error,            \* <<cell, exception>> of the exception that halted the run
    steps,            \* the orchestration steps that have run (returned or raised), in order
    ws,               \* TRUE once the workspace handle is resolved
    cluster,          \* the remote cluster named cluster_name
    compute_target,   \* the cluster handle: held, got by a hit, the cluster as found
    requests,         \* create/update requests issued to the compute API
    project_dir,      \* the staging directory: whether it exists, the paths in it
    est,              \* the estimator (job descriptor)
    run,              \* the submitted run: status and the cluster state at submit
    artifacts,        \* the run's remote output store: artifact name -> document
    local_files,      \* local storage: path -> document
    table,            \* what the report cell printed
    packs,            \* completed executions of the staging cells
    pack_errors,      \* executions of the staging cells that raised
    epochs,           \* args.epochs of train.py
    wpc,              \* worker rank -> position in train.py
    epoch,            \* worker rank -> loop variable of the training loop
    set_epochs,       \* worker rank -> epochs passed to sampler.set_epoch
    fits,             \* worker rank -> epochs passed to classifier.fit
    exit_code,        \* worker rank -> process exit code (-1 while running)
    raised,           \* worker rank -> the exception that ended the process, or ""
    writers           \* ranks that have written the results file

vars == <<DEBUG, NODE_COUNT, config_file, params_given, pc, error, steps, ws,
          cluster, compute_target, requests, project_dir, est, run, artifacts,
          local_files, table, packs, pack_errors, epochs, wpc, epoch,
          set_epochs, fits, exit_code, raised, writers>>

paramVars == <<DEBUG, NODE_COUNT, config_file, params_given>>
trainVars == <<epochs, wpc, epoch, set_epochs, fits, exit_code, raised, writers>>
packVars  == <<packs, pack_errors>>

(***************************************************************************)
(* Bounds of the model.                                                    *)
(***************************************************************************)
MaxNodes == 2        \* NODE_COUNT and an existing cluster's max_nodes range over 0..MaxNodes
MaxPacks == 2        \* executions of the staging cells in SpecPackager
MaxRows == 2         \* rows (outer keys) of a results document in SpecReport
MaxEpochs == 2       \* args.epochs ranges over 0..MaxEpochs in SpecTrain

(***************************************************************************)
(* Notebook constants.                                                     *)
(***************************************************************************)
NUM_PROCESS == 1
cluster_name == "gpu-entail"
vm_size == "STANDARD_NC6"

(***************************************************************************)
(* Paths.  A path is the sequence of its components; os.path.join          *)
(* concatenates, and two paths name the same file when they agree after    *)
(* the "." components are dropped.                                         *)
(***************************************************************************)
RECURSIVE Normpath(_)
Normpath(p) ==
    IF p = <<>> THEN <<>>
    ELSE IF Head(p) = "." THEN Normpath(Tail(p))
    ELSE <<Head(p)>> \o Normpath(Tail(p))

OsPathJoin(a, b) == a \o b

Basename(p) == <<p[Len(p)]>>

OUTPUT_DIR == <<".", "outputs">>                  \* "./outputs/" in train.py
file_names == << <<"outputs", "results.json">> >>   \* requested by the retrieval cell
output_path == <<".", "outputs">>                 \* "./outputs", destination of the retrieval
report_path == <<"outputs", "results.json">>      \* opened by the report cell

(***************************************************************************)
(* Results documents.  A document is the sequence of its <<key, record>>   *)
(* members in file order, a record the sequence of its <<field, value>>    *)
(* members in file order.                                                  *)
(***************************************************************************)
Fields == {"precision", "recall", "f1-score", "support"}
Labels == {"entailment", "micro avg", "neutral"}

\* The value the model gives field f of row l: distinct for every cell, so
\* that a value shown in the wrong row or column is told apart.
LabelNo(l) == CASE l = "entailment" -> 1 [] l = "micro avg" -> 2 [] OTHER -> 3
FieldNo(f) == CASE f = "precision" -> 1 [] f = "recall" -> 2
                [] f = "f1-score" -> 3 [] OTHER -> 4
CellValue(l, f) == 10 * LabelNo(l) + FieldNo(f)

Perms(S) == {s \in [1..Cardinality(S) -> S] : \A i, j \in 1..Cardinality(S) : i # j => s[i] # s[j]}

RecordOf(l, order) == [i \in 1..Len(order) |-> <<order[i], CellValue(l, order[i])>>]

\* classification_report(output_dict=True): precision, recall, f1-score, support
ReportOrder == <<"precision", "recall", "f1-score", "support">>
SampleDoc == << <<"entailment", RecordOf("entailment", ReportOrder)>>,
                <<"micro avg", RecordOf("micro avg", ReportOrder)>> >>

NoFiles == [p \in {} |-> <<>>]
Put(fs, p, d) == [q \in DOMAIN fs \cup {p} |-> IF q = p THEN d ELSE fs[q]]

(***************************************************************************)
(* The remote cluster.                                                     *)
(***************************************************************************)
NoCluster == [exists |-> FALSE, vm_size |-> "", min_nodes |-> 0, max_nodes |-> 0,
              current |-> 0, provisioning_state |-> "none"]

ExistingClusters ==
    {c \in [exists : {TRUE}, vm_size : {"STANDARD_NC6", "STANDARD_NC6S_V2"},
            min_nodes : 0..1, max_nodes : 1..MaxNodes, current : 0..MaxNodes,
            provisioning_state : {"Succeeded", "Failed"}] :
        /\ c.min_nodes <= c.current /\ c.current <= c.max_nodes
        /\ c.provisioning_state = "Failed" => c.current = 0}

NoRun == [status |-> "none", node_count |-> 0, cluster |-> NoCluster]
NoEst == [built |-> FALSE, node_count |-> 0, process_count_per_node |-> 0,
          source_directory |-> {}]

NonTerminal == {"Queued", "Running"}
Terminal == {"Succeeded", "Failed", "Canceled"}

NoTarget == [held |-> FALSE, hit |-> FALSE, seen |-> NoCluster]
NoTable == [index |-> <<>>, columns |-> <<>>, cell |-> <<>>]

(***************************************************************************)
(* The staging directory: whether it exists and the paths in it, relative  *)
(* to project_dir.  SourceTree is the library tree ../../utils_nlp.        *)
(***************************************************************************)
NoDir == [exists |-> FALSE, entries |-> {}]
SourceTree == {<<"common">>, <<"models">>}
LibraryDst == <<"utils_nlp">>
TrainScript == <<"train.py">>
StalePaths == {<<"utils_nlp", "stale">>, <<"notes">>}
StagingPaths == {LibraryDst, TrainScript} \cup StalePaths
                    \cup {OsPathJoin(LibraryDst, f) : f \in SourceTree}

\* Directories a file system can hold: a path under utils_nlp needs utils_nlp.
PriorDirs ==
    {NoDir} \cup
    {[exists |-> TRUE, entries |-> e] : e \in
        {e \in SUBSET StagingPaths :
            (\E p \in e : Len(p) = 2) => LibraryDst \in e}}

(***************************************************************************)
(* The train.py variables are not used by the notebook's own cells.        *)
(***************************************************************************)
NoWorkers == [r \in {} |-> 0]

TrainIdle ==
    /\ epochs = 0
    /\ wpc = [r \in {} |-> "none"]
    /\ epoch = NoWorkers
    /\ set_epochs = [r \in {} |-> <<>>]
    /\ fits = [r \in {} |-> <<>>]
    /\ exit_code = NoWorkers
    /\ raised = [r \in {} |-> ""]
    /\ writers = {}

(***************************************************************************)
(* The code cells in the order the notebook holds them (lines 116-520);    *)
(* a cell that returns hands over to the next one.                         *)
(***************************************************************************)
Cells == <<"workspace", "compute", "package", "writefile", "estimator",
           "submit", "wait", "retrieve", "report", "done">>

\* the retrieval cell placed before the blocking wait
NextCell_RetrieveBeforeWait(c) ==
    CASE c = "submit" -> "retrieve"
      [] c = "retrieve" -> "wait"
      [] c = "wait" -> "report"
      [] OTHER -> Cells[(CHOOSE i \in 1..Len(Cells) : Cells[i] = c) + 1]

NextCell(c) == Cells[(CHOOSE i \in 1..Len(Cells) : Cells[i] = c) + 1]

(***************************************************************************)
(* An uncaught exception in a cell: the run stops there.                   *)
(***************************************************************************)
Raise(cell, exc) ==
    /\ pc' = "halted"
    /\ error' = <<cell, exc>>

(***************************************************************************)
(* Cell 3, lines 116-122: ws = get_or_create_workspace(...).               *)
(* utils_nlp.azureml.azureml_utils is not among the sources; the cell      *)
(* follows the Workspace Resolver of the specification: the credential     *)
(* file if present, else the explicit parameters, else ConfigurationError. *)
(***************************************************************************)
GetOrCreateWorkspace ==
    /\ pc = "workspace"
    /\ steps' = Append(steps, "workspace")
    /\ IF config_file \/ params_given
         THEN ws' = TRUE /\ pc' = NextCell("workspace") /\ UNCHANGED error
         ELSE Raise("workspace", "ConfigurationError") /\ UNCHANGED ws
    /\ UNCHANGED <<paramVars, cluster, compute_target, requests, project_dir, est,
                   run, artifacts, local_files, table, packVars, trainVars>>

(***************************************************************************)
(* Cell 4, lines 166-178: get or create the compute target.                *)
(***************************************************************************)
\* line 167: ComputeTarget(workspace=ws, name=cluster_name) finds the cluster
LookupHits == cluster.exists

\* a hit that resizes the cluster found to the configuration asked for
OnHit_Resize ==
    /\ cluster' = [cluster EXCEPT !.vm_size = vm_size, !.min_nodes = 0,
                                  !.max_nodes = NODE_COUNT]
    /\ requests' = requests + 1

\* lines 167-168: on a hit nothing is sent to the compute API
OnHit == UNCHANGED <<cluster, requests>>

\* a configuration that keeps one node allocated
compute_config_MinOne == [vm_size |-> vm_size, min_nodes |-> 1, max_nodes |-> NODE_COUNT]

\* lines 171-173: AmlCompute.provisioning_configuration(vm_size, max_nodes);
\* min_nodes is not passed and is 0 (minNodeCount in the output, line 161)
compute_config == [vm_size |-> vm_size, min_nodes |-> 0, max_nodes |-> NODE_COUNT]

ComputeTargetLookup ==
    /\ pc = "compute"
    /\ LookupHits
    /\ steps' = Append(steps, "compute")
    /\ OnHit
    /\ compute_target' = [held |-> TRUE, hit |-> TRUE, seen |-> cluster]
    /\ pc' = NextCell("compute")
    /\ UNCHANGED <<paramVars, error, ws, project_dir, est, run, artifacts,
                   local_files, table, packVars, trainVars>>

\* lines 169-174: the lookup raised ComputeTargetException; one create request.
\* The service accepts it or ComputeTarget.create raises.
ComputeTargetCreate ==
    /\ pc = "compute"
    /\ ~LookupHits
    /\ steps' = Append(steps, "compute")
    /\ requests' = requests + 1
    /\ \/ /\ cluster' = [exists |-> TRUE, vm_size |-> compute_config.vm_size,
                         min_nodes |-> compute_config.min_nodes,
                         max_nodes |-> compute_config.max_nodes,
                         current |-> 0, provisioning_state |-> "Creating"]
          /\ compute_target' = [held |-> TRUE, hit |-> FALSE, seen |-> NoCluster]
          /\ pc' = "compute_wait"
          /\ UNCHANGED error
       \/ /\ Raise("compute", "ComputeTargetException")
          /\ UNCHANGED <<cluster, compute_target>>
    /\ UNCHANGED <<paramVars, ws, project_dir, est, run, artifacts,
                   local_files, table, packVars, trainVars>>

\* line 175: compute_target.wait_for_completion(show_output=True) returns once
\* provisioning is terminal.  The cell does not look at the state reached:
\* line 178 prints it.  AmlCompute.wait_for_completion reports a Failed
\* provisioning by printing its errors; both that and a raise are allowed.
ProvisioningOver == cluster.provisioning_state \in {"Succeeded", "Failed"}

ComputeWaitForCompletion ==
    /\ pc = "compute_wait"
    /\ ProvisioningOver
    /\ \/ pc' = NextCell("compute") /\ UNCHANGED error
       \/ /\ cluster.provisioning_state = "Failed"
          /\ Raise("compute", "ComputeTargetException")
    /\ UNCHANGED <<paramVars, steps, ws, cluster, compute_target, requests,
                   project_dir, est, run, artifacts, local_files, table,
                   packVars, trainVars>>

(***************************************************************************)
(* Cell 5, lines 198-201: stage the library tree.                          *)
(***************************************************************************)
\* the flag inverted
ShouldRemove_NotDebug == ~DEBUG /\ project_dir.exists

\* line 199: if DEBUG and os.path.exists(project_dir)
ShouldRemove == DEBUG /\ project_dir.exists

\* line 200: shutil.rmtree(project_dir)
AfterRmtree == IF ShouldRemove THEN NoDir ELSE project_dir

\* line 201: shutil.copytree(src, dst) creates dst and its parents and copies
\* the tree into it; it raises FileExistsError when dst exists.
Copytree(dir, dst) ==
    [exists |-> TRUE,
     entries |-> dir.entries \cup {dst} \cup {OsPathJoin(dst, f) : f \in SourceTree}]

PackageCell ==
    /\ pc = "package"
    /\ steps' = Append(steps, "package")
    /\ IF LibraryDst \in AfterRmtree.entries
         THEN /\ project_dir' = AfterRmtree
              /\ Raise("package", "FileExistsError")
              /\ pack_errors' = pack_errors + 1
         ELSE /\ project_dir' = Copytree(AfterRmtree, LibraryDst)
              /\ pc' = NextCell("package")
              /\ UNCHANGED <<error, pack_errors>>
    /\ UNCHANGED <<paramVars, ws, cluster, compute_target, requests, est, run,
                   artifacts, local_files, table, packs, trainVars>>

\* Cell 6, line 225: %%writefile $project_dir/train.py
WriteFileCell ==
    /\ pc = "writefile"
    /\ IF project_dir.exists
         THEN /\ project_dir' = [project_dir EXCEPT !.entries = @ \cup {TrainScript}]
              /\ packs' = packs + 1
              /\ pc' = NextCell("writefile")
              /\ UNCHANGED <<error, pack_errors>>
         ELSE /\ Raise("package", "FileNotFoundError")
              /\ pack_errors' = pack_errors + 1
              /\ UNCHANGED <<project_dir, packs>>
    /\ UNCHANGED <<paramVars, steps, ws, cluster, compute_target, requests, est,
                   run, artifacts, local_files, table, trainVars>>

(***************************************************************************)
(* Cell 7, lines 388-406, and cell 8, lines 425-426: the estimator and     *)
(* experiment.submit(est).                                                 *)
(***************************************************************************)
EstimatorCell ==
    /\ pc = "estimator"
    /\ steps' = Append(steps, "submit")
    /\ est' = [built |-> TRUE, node_count |-> NODE_COUNT,
               process_count_per_node |-> NUM_PROCESS,
               source_directory |-> project_dir.entries]
    /\ pc' = NextCell("estimator")
    /\ UNCHANGED <<paramVars, error, ws, cluster, compute_target, requests,
                   project_dir, run, artifacts, local_files, table, packVars,
                   trainVars>>

\* line 426: returns the run handle at once, or the service rejects the job
SubmitCell ==
    /\ pc = "submit"
    /\ \/ /\ run' = [status |-> "Queued", node_count |-> est.node_count,
                     cluster |-> cluster]
          /\ pc' = NextCell("submit")
          /\ UNCHANGED error
       \/ /\ Raise("submit", "ExperimentExecutionException")
          /\ UNCHANGED run
    /\ UNCHANGED <<paramVars, steps, ws, cluster, compute_target, requests,
                   project_dir, est, artifacts, local_files, table, packVars,
                   trainVars>>

(***************************************************************************)
(* Cell 10, line 468: run.wait_for_completion(), "a blocking call to stop  *)
(* the cells below it to execute" (line 459).  It returns once the run is  *)
(* terminal and raises for a failed run (raise_on_error is left at its     *)
(* default); for a canceled run both outcomes are allowed.                 *)
(***************************************************************************)
\* a wait that returns as soon as the run exists
WaitReturns_OnceSubmitted == run.status # "none"

WaitReturns == run.status \in Terminal

WaitForCompletion ==
    /\ pc = "wait"
    /\ WaitReturns
    /\ steps' = Append(steps, "wait")
    /\ \/ /\ run.status # "Failed"
          /\ pc' = NextCell("wait")
          /\ UNCHANGED error
       \/ /\ run.status \in {"Failed", "Canceled"}
          /\ Raise("wait", "ActivityFailedException")
    /\ UNCHANGED <<paramVars, ws, cluster, compute_target, requests, project_dir,
                   est, run, artifacts, local_files, table, packVars, trainVars>>

(***************************************************************************)
(* Cell 11, lines 494-495: get_output_files(run, "./outputs", file_names). *)
(* utils_nlp.azureml.azureml_utils is not among the sources; the cell      *)
(* follows the Result Retriever of the specification: each named artifact  *)
(* is fetched into the destination, a missing one is an                    *)
(* ArtifactNotFoundError that does not stop the rest of the batch.  The    *)
(* destination of an artifact is the one the cell printed (line 489):      *)
(* output_path joined with the artifact's base name.                       *)
(***************************************************************************)
Destination(f) == Normpath(OsPathJoin(output_path, Basename(f)))

RECURSIVE Fetch(_, _)
Fetch(fs, names) ==
    IF names = <<>> THEN fs
    ELSE LET f == Head(names)
         IN  Fetch(IF f \in DOMAIN artifacts
                     THEN Put(fs, Destination(f), artifacts[f])
                     ELSE fs,
                   Tail(names))

Missing(names) == {i \in 1..Len(names) : names[i] \notin DOMAIN artifacts}

RetrieveCell ==
    /\ pc = "retrieve"
    /\ steps' = Append(steps, "retrieve")
    /\ local_files' = Fetch(local_files, file_names)
    /\ IF Missing(file_names) = {}
         THEN pc' = NextCell("retrieve") /\ UNCHANGED error
         ELSE Raise("retrieve", "ArtifactNotFoundError")
    /\ UNCHANGED <<paramVars, ws, cluster, compute_target, requests, project_dir,
                   est, run, artifacts, table, packVars, trainVars>>

(***************************************************************************)
(* Cell 12, lines 518-520:                                                 *)
(*   parsed = json.load(handle)                                            *)
(*   print(pd.DataFrame.from_dict(parsed).transpose())                     *)
(***************************************************************************)
NaN == 0 - 1

Keys(obj) == [i \in 1..Len(obj) |-> obj[i][1]]
KeySet(obj) == {obj[i][1] : i \in 1..Len(obj)}

\* json.load: the value of a key is that of its last member
Lookup(obj, k) == obj[CHOOSE i \in 1..Len(obj) :
                        /\ obj[i][1] = k
                        /\ \A j \in (i + 1)..Len(obj) : obj[j][1] # k][2]

InnerKeys(doc) == UNION {KeySet(doc[i][2]) : i \in 1..Len(doc)}

\* the order of the strings, as in the header the cell printed (line 507)
NameRank(f) == CASE f = "f1-score" -> 1 [] f = "precision" -> 2
                 [] f = "recall" -> 3 [] OTHER -> 4

RECURSIVE SortedSeq(_)
SortedSeq(S) ==
    IF S = {} THEN <<>>
    ELSE LET m == CHOOSE x \in S : \A y \in S : NameRank(x) <= NameRank(y)
         IN  <<m>> \o SortedSeq(S \ {m})

\* an index kept in the order of the first record
IndexOrder_FileOrder(doc) == Keys(doc[1][2])

\* from_dict of a dict of dicts: the index is the union of the inner keys,
\* sorted (the printed header is f1-score, precision, recall, support)
IndexOrder(doc) == SortedSeq(InnerKeys(doc))

\* DataFrame.from_dict(parsed): one column per outer key, in document order
FromDict(doc) ==
    [index |-> IndexOrder(doc),
     columns |-> Keys(doc),
     cell |-> [rc \in InnerKeys(doc) \X KeySet(doc) |->
                 LET rec == Lookup(doc, rc[2])
                 IN  IF rc[1] \in KeySet(rec) THEN Lookup(rec, rc[1]) ELSE NaN]]

Transpose(df) ==
    [index |-> df.columns,
     columns |-> df.index,
     cell |-> [rc \in {<<x[2], x[1]>> : x \in DOMAIN df.cell} |->
                 df.cell[<<rc[2], rc[1]>>]]]

Render(doc) == Transpose(FromDict(doc))

ReportCell ==
    /\ pc = "report"
    /\ steps' = Append(steps, "report")
    /\ IF Normpath(report_path) \in DOMAIN local_files
         THEN /\ table' = Render(local_files[Normpath(report_path)])
              /\ pc' = NextCell("report")
              /\ UNCHANGED error
         ELSE /\ Raise("report", "FileNotFoundError")
              /\ UNCHANGED table
    /\ UNCHANGED <<paramVars, ws, cluster, compute_target, requests, project_dir,
                   est, run, artifacts, local_files, packVars, trainVars>>

(***************************************************************************)
(* The remote platform.  Provisioning of a created cluster ends Succeeded  *)
(* or Failed; the node count of a provisioned cluster moves within its     *)
(* scale settings; a queued run starts once its nodes are allocated and    *)
(* ends Succeeded, Failed or Canceled.  What train.py wrote under          *)
(* OUTPUT_DIR becomes an artifact of the run.                              *)
(***************************************************************************)
ProvisioningEnds ==
    /\ cluster.provisioning_state = "Creating"
    /\ \E s \in {"Succeeded", "Failed"} :
          cluster' = [cluster EXCEPT !.provisioning_state = s]
    /\ UNCHANGED <<paramVars, pc, error, steps, ws, compute_target, requests,
                   project_dir, est, run, artifacts, local_files, table,
                   packVars, trainVars>>

Autoscale ==
    /\ cluster.provisioning_state = "Succeeded"
    /\ \E n \in cluster.min_nodes..cluster.max_nodes :
          /\ n # cluster.current
          /\ run.status = "Running" => n >= run.node_count
          /\ cluster' = [cluster EXCEPT !.current = n]
    /\ UNCHANGED <<paramVars, pc, error, steps, ws, compute_target, requests,
                   project_dir, est, run, artifacts, local_files, table,
                   packVars, trainVars>>

RunStarts ==
    /\ run.status = "Queued"
    /\ cluster.provisioning_state = "Succeeded"
    /\ run.node_count <= cluster.current
    /\ run' = [run EXCEPT !.status = "Running"]
    /\ UNCHANGED <<paramVars, pc, error, steps, ws, cluster, compute_target,
                   requests, project_dir, est, artifacts, local_files, table,
                   packVars, trainVars>>

\* train.py, line 365: result_file = os.path.join(OUTPUT_DIR, "results.json")
result_file == OsPathJoin(OUTPUT_DIR, <<"results.json">>)

Uploads == {NoFiles, Put(NoFiles, Normpath(result_file), SampleDoc)}

RunEnds ==
    /\ run.status = "Running"
    /\ \E s \in Terminal : run' = [run EXCEPT !.status = s]
    /\ artifacts' \in Uploads
    /\ UNCHANGED <<paramVars, pc, error, steps, ws, cluster, compute_target,
                   requests, project_dir, est, local_files, table, packVars,
                   trainVars>>

RunDropped ==
    /\ run.status = "Queued"
    /\ \E s \in {"Failed", "Canceled"} : run' = [run EXCEPT !.status = s]
    /\ UNCHANGED <<paramVars, pc, error, steps, ws, cluster, compute_target,
                   requests, project_dir, est, artifacts, local_files, table,
                   packVars, trainVars>>

(***************************************************************************)
(* The notebook, run top to bottom.                                        *)
(***************************************************************************)
StaleDoc == << <<"neutral", RecordOf("neutral", ReportOrder)>> >>
StaleDir == [exists |-> TRUE,
             entries |-> {LibraryDst, <<"utils_nlp", "stale">>, TrainScript}]

Init ==
    /\ DEBUG \in BOOLEAN
    /\ NODE_COUNT \in 0..MaxNodes
    /\ config_file \in BOOLEAN
    /\ params_given \in BOOLEAN
    /\ pc = "workspace"
    /\ error = <<>>
    /\ steps = <<>>
    /\ ws = FALSE
    /\ cluster \in {NoCluster} \cup ExistingClusters
    /\ compute_target = NoTarget
    /\ requests = 0
    /\ project_dir \in {NoDir, StaleDir}
    /\ est = NoEst
    /\ run = NoRun
    /\ artifacts = NoFiles
    /\ local_files \in {NoFiles, Put(NoFiles, Normpath(report_path), StaleDoc)}
    /\ table = NoTable
    /\ packs = 0
    /\ pack_errors = 0
    /\ TrainIdle

Next ==
    \/ GetOrCreateWorkspace
    \/ ComputeTargetLookup
    \/ ComputeTargetCreate
    \/ ComputeWaitForCompletion
    \/ PackageCell
    \/ WriteFileCell
    \/ EstimatorCell
    \/ SubmitCell
    \/ WaitForCompletion
    \/ RetrieveCell
    \/ ReportCell
    \/ ProvisioningEnds
    \/ Autoscale
    \/ RunStarts
    \/ RunEnds
    \/ RunDropped

Spec == Init /\ [][Next]_vars

(***************************************************************************)
(* SpecPackager: the staging cells (5 and 6) executed up to MaxPacks       *)
(* times in succession on one staging directory, from any prior content    *)
(* and either value of DEBUG.                                              *)
(***************************************************************************)
ReexecuteStaging ==
    /\ \/ pc = NextCell("writefile")
       \/ pc = "halted"
    /\ packs + pack_errors < MaxPacks
    /\ pc' = "package"
    /\ error' = <<>>
    /\ UNCHANGED <<paramVars, steps, ws, cluster, compute_target, requests,
                   project_dir, est, run, artifacts, local_files, table,
                   packVars, trainVars>>

InitPackager ==
    /\ DEBUG \in BOOLEAN
    /\ NODE_COUNT = 1
    /\ config_file = TRUE
    /\ params_given = TRUE
    /\ pc = "package"
    /\ error = <<>>
    /\ steps = <<>>
    /\ ws = TRUE
    /\ cluster = NoCluster
    /\ compute_target = NoTarget
    /\ requests = 0
    /\ project_dir \in PriorDirs
    /\ est = NoEst
    /\ run = NoRun
    /\ artifacts = NoFiles
    /\ local_files = NoFiles
    /\ table = NoTable
    /\ packs = 0
    /\ pack_errors = 0
    /\ TrainIdle

NextPackager == PackageCell \/ WriteFileCell \/ ReexecuteStaging

SpecPackager == InitPackager /\ [][NextPackager]_vars

(***************************************************************************)
(* SpecReport: the report cell on any well-formed results document of up   *)
(* to MaxRows rows: distinct keys, each record holding the four fields     *)
(* once, in any order.                                                     *)
(***************************************************************************)
RowOrders == UNION {{s \in [1..n -> Labels] :
                        \A i, j \in 1..n : i # j => s[i] # s[j]} : n \in 1..MaxRows}

FieldOrders == Perms(Fields)

DocOf(rows, orders) == [i \in 1..Len(rows) |-> <<rows[i], RecordOf(rows[i], orders[i])>>]

InitReport ==
    /\ DEBUG = TRUE
    /\ NODE_COUNT = 1
    /\ config_file = TRUE
    /\ params_given = TRUE
    /\ pc = "report"
    /\ error = <<>>
    /\ steps = <<>>
    /\ ws = TRUE
    /\ cluster = NoCluster
    /\ compute_target = NoTarget
    /\ requests = 0
    /\ project_dir = NoDir
    /\ est = NoEst
    /\ run = NoRun
    /\ artifacts = NoFiles
    /\ \E rows \in RowOrders : \E orders \in [1..Len(rows) -> FieldOrders] :
          local_files = Put(NoFiles, Normpath(report_path), DocOf(rows, orders))
    /\ table = NoTable
    /\ packs = 0
    /\ pack_errors = 0
    /\ TrainIdle

NextReport == ReportCell

SpecReport == InitReport /\ [][NextReport]_vars

(***************************************************************************)
(* SpecTrain: train.py (cell 6, lines 225-370) run by the NODE_COUNT x     *)
(* NUM_PROCESS worker processes of one job.  wpc is the statement a worker *)
(* is about to run.  A library call may raise; an uncaught exception ends  *)
(* the process with exit code 1, the end of the script with exit code 0.   *)
(* What a worker writes under OUTPUT_DIR becomes an artifact of the run.   *)
(***************************************************************************)
Workers == DOMAIN wpc

\* lines 226-237: the names train.py imports
Imported == {"hvd", "torch", "np", "time", "argparse", "Timer", "XnliDataset",
             "Language", "BERTSequenceClassifier", "classification_report"}

\* lines 365-367: the module names the results write refers to
WriteUses == {"os", "json"}

Unbound(names) == names \ Imported

Exit(r, code, exc) ==
    /\ wpc' = [wpc EXCEPT ![r] = "exited"]
    /\ exit_code' = [exit_code EXCEPT ![r] = code]
    /\ raised' = [raised EXCEPT ![r] = exc]

orchVars == <<paramVars, pc, error, steps, ws, cluster, compute_target, requests,
              project_dir, est, run, local_files, table, packVars>>

\* lines 226-324: imports, hvd.init(), arguments, dataset, classifier, optimizer
Setup(r) ==
    /\ wpc[r] = "setup"
    /\ wpc' = [wpc EXCEPT ![r] = "loop"]
    /\ UNCHANGED <<orchVars, artifacts, epochs, epoch, set_epochs, fits,
                   exit_code, raised, writers>>

\* line 327: for epoch in range(1, args.epochs + 1)
LoopHead(r) ==
    /\ wpc[r] = "loop"
    /\ IF epoch[r] + 1 <= epochs
         THEN /\ epoch' = [epoch EXCEPT ![r] = @ + 1]
              /\ wpc' = [wpc EXCEPT ![r] = "set_epoch"]
         ELSE /\ wpc' = [wpc EXCEPT ![r] = "rank"]
              /\ UNCHANGED epoch
    /\ UNCHANGED <<orchVars, artifacts, epochs, set_epochs, fits, exit_code,
                   raised, writers>>

\* line 330: train_loader.sampler.set_epoch(epoch)
SetEpoch(r) ==
    /\ wpc[r] = "set_epoch"
    /\ set_epochs' = [set_epochs EXCEPT ![r] = Append(@, epoch[r])]
    /\ wpc' = [wpc EXCEPT ![r] = "fit"]
    /\ UNCHANGED <<orchVars, artifacts, epochs, epoch, fits, exit_code, raised,
                   writers>>

\* lines 333-339: classifier.fit(train_loader, epoch=epoch, ...)
Fit(r) ==
    /\ wpc[r] = "fit"
    /\ fits' = [fits EXCEPT ![r] = Append(@, epoch[r])]
    /\ wpc' = [wpc EXCEPT ![r] = "loop"]
    /\ UNCHANGED <<orchVars, artifacts, epochs, epoch, set_epochs, exit_code,
                   raised, writers>>

\* line 342 with the test dropped: every rank enters the evaluation block
RankCheck_EveryRank(r) ==
    /\ wpc[r] = "rank"
    /\ wpc' = [wpc EXCEPT ![r] = "evaluate"]
    /\ UNCHANGED <<exit_code, raised>>
    /\ UNCHANGED <<orchVars, artifacts, epochs, epoch, set_epochs, fits, writers>>

\* line 342: if hvd.rank() == 0; the other ranks reach the end of the script
RankCheck(r) ==
    /\ wpc[r] = "rank"
    /\ IF r = 0
         THEN /\ wpc' = [wpc EXCEPT ![r] = "evaluate"]
              /\ UNCHANGED <<exit_code, raised>>
         ELSE Exit(r, 0, "")
    /\ UNCHANGED <<orchVars, artifacts, epochs, epoch, set_epochs, fits, writers>>

\* lines 343-363: test dataset, predict, classification_report
Evaluate(r) ==
    /\ wpc[r] = "evaluate"
    /\ wpc' = [wpc EXCEPT ![r] = "write"]
    /\ UNCHANGED <<orchVars, artifacts, epochs, epoch, set_epochs, fits,
                   exit_code, raised, writers>>

\* lines 365-370: result_file = os.path.join(OUTPUT_DIR, "results.json");
\* json.dump(results, fp); classifier.save_model().  A name that is not bound
\* raises NameError before anything is written.
WriteResults(r) ==
    /\ wpc[r] = "write"
    /\ IF Unbound(WriteUses) = {}
         THEN /\ artifacts' = Put(artifacts, Normpath(result_file), SampleDoc)
              /\ writers' = writers \cup {r}
              /\ Exit(r, 0, "")
         ELSE /\ Exit(r, 1, "NameError")
              /\ UNCHANGED <<artifacts, writers>>
    /\ UNCHANGED <<orchVars, epochs, epoch, set_epochs, fits>>

\* a library call (lines 241-363) raises
LibraryCallRaises(r) ==
    /\ wpc[r] \in {"setup", "set_epoch", "fit", "evaluate"}
    /\ Exit(r, 1, "RuntimeError")
    /\ UNCHANGED <<orchVars, artifacts, epochs, epoch, set_epochs, fits, writers>>

InitTrain ==
    /\ DEBUG = TRUE
    /\ NODE_COUNT \in 1..MaxNodes
    /\ config_file = TRUE
    /\ params_given = TRUE
    /\ pc = "wait"
    /\ error = <<>>
    /\ steps = <<>>
    /\ ws = TRUE
    /\ cluster = NoCluster
    /\ compute_target = NoTarget
    /\ requests = 0
    /\ project_dir = NoDir
    /\ est = NoEst
    /\ run = NoRun
    /\ artifacts = NoFiles
    /\ local_files = NoFiles
    /\ table = NoTable
    /\ packs = 0
    /\ pack_errors = 0
    /\ epochs \in 0..MaxEpochs
    /\ wpc = [r \in 0..(NODE_COUNT * NUM_PROCESS - 1) |-> "setup"]
    /\ epoch = [r \in 0..(NODE_COUNT * NUM_PROCESS - 1) |-> 0]
    /\ set_epochs = [r \in 0..(NODE_COUNT * NUM_PROCESS - 1) |-> <<>>]
    /\ fits = [r \in 0..(NODE_COUNT * NUM_PROCESS - 1) |-> <<>>]
    /\ exit_code = [r \in 0..(NODE_COUNT * NUM_PROCESS - 1) |-> 0 - 1]
    /\ raised = [r \in 0..(NODE_COUNT * NUM_PROCESS - 1) |-> ""]
    /\ writers = {}

NextTrain ==
    \/ \E r \in Workers : Setup(r)
    \/ \E r \in Workers : LoopHead(r)
    \/ \E r \in Workers : SetEpoch(r)
    \/ \E r \in Workers : Fit(r)
    \/ \E r \in Workers : RankCheck(r)
    \/ \E r \in Workers : Evaluate(r)
    \/ \E r \in Workers : WriteResults(r)
    \/ \E r \in Workers : LibraryCallRaises(r)

SpecTrain == InitTrain /\ [][NextTrain]_vars

(***************************************************************************)
(* Properties.                                                             *)
(***************************************************************************)
Range(s) == {s[i] : i \in 1..Len(s)}
IsPrefix(s, t) == Len(s) <= Len(t) /\ \A i \in 1..Len(s) : s[i] = t[i]
Last(s) == s[Len(s)]

StepOrder == <<"workspace", "compute", "package", "submit", "wait", "retrieve", "report">>

\* C1: the steps run in the order workspace, compute, package, submit, wait,
\* retrieve, report, and retrieval and report never start while the
\* submitted run is Queued or Running.
StepsInOrderRetrievalAfterWait ==
    /\ IsPrefix(steps, StepOrder)
    /\ (pc \in {"retrieve", "report", "done"} \/ "retrieve" \in Range(steps))
          => run.status \in Terminal

AllStepsRan == pc = "done" /\ steps = StepOrder /\ run.status = "Succeeded"

StatusRank(st) == CASE st = "none" -> 0 [] st = "Queued" -> 1 [] st = "Running" -> 2
                    [] OTHER -> 3

OneCopy == {LibraryDst} \cup {OsPathJoin(LibraryDst, f) : f \in SourceTree}

\* C3 (amended): with DEBUG true, every execution of the staging cells
\* succeeds, whatever the directory held before, and leaves exactly one copy
\* of the library tree (plus train.py once written) and nothing else.
PackagerCleanWhenDebug ==
    DEBUG =>
        /\ pack_errors = 0
        /\ pc # "halted"
        /\ pc = "writefile" => project_dir = [exists |-> TRUE, entries |-> OneCopy]
        /\ pc = "estimator" =>
              project_dir = [exists |-> TRUE, entries |-> OneCopy \cup {TrainScript}]

PackagedTwiceWithDebug == DEBUG /\ packs = 2 /\ pc = "estimator"

\* C3 (as claimed): every execution of the staging cells succeeds and leaves
\* exactly one copy of the library tree and nothing else.
PackagerAlwaysClean ==
    /\ pack_errors = 0
    /\ pc # "halted"
    /\ pc = "writefile" => project_dir = [exists |-> TRUE, entries |-> OneCopy]
    /\ pc = "estimator" =>
          project_dir = [exists |-> TRUE, entries |-> OneCopy \cup {TrainScript}]

\* C4: after a lookup hit no request has been sent to the compute API and
\* the cluster keeps the VM size and the scale bounds it was found with.
LookupHitLeavesClusterAlone ==
    compute_target.hit =>
        /\ requests = 0
        /\ cluster.exists
        /\ cluster.vm_size = compute_target.seen.vm_size
        /\ cluster.min_nodes = compute_target.seen.min_nodes
        /\ cluster.max_nodes = compute_target.seen.max_nodes

HitOnDifferentlySizedCluster ==
    /\ compute_target.hit
    /\ compute_target.seen.vm_size # vm_size
    /\ compute_target.seen.max_nodes # NODE_COUNT
    /\ pc = "done"

Created == compute_target.held /\ ~compute_target.hit

\* C5 (as claimed): a lookup miss issues one create request with bounds
\* [0, NODE_COUNT], the cell goes on only once provisioning is terminal, a
\* Failed provisioning halts the run at the compute cell, and a job is only
\* ever submitted against a cluster whose provisioning Succeeded.
JobOnlyOnProvisionedCluster ==
    /\ Created => /\ requests = 1
                  /\ cluster.min_nodes = 0
                  /\ cluster.max_nodes = NODE_COUNT
    /\ (Created /\ pc # "compute_wait") => ProvisioningOver
    /\ (Created /\ pc # "compute_wait" /\ cluster.provisioning_state = "Failed")
          => pc = "halted" /\ error[1] = "compute"
    /\ run.status # "none" => run.cluster.provisioning_state = "Succeeded"

\* C6 (as claimed): a failed step halts the run at that step: the run is
\* halted whenever an error was raised, the last step started is the one
\* that raised, a created cluster whose provisioning Failed halts the run
\* at the compute cell, and a run that ended Failed or Canceled halts it
\* at the wait.
HaltsAtFirstError ==
    /\ error # <<>> => pc = "halted" /\ Last(steps) = error[1]
    /\ (Created /\ pc # "compute_wait" /\ cluster.provisioning_state = "Failed")
          => pc = "halted" /\ error[1] = "compute"
    /\ ("wait" \in Range(steps) /\ run.status \in {"Failed", "Canceled"})
          => pc = "halted" /\ error[1] = "wait"

BoundsOrdered ==
    /\ 0 <= cluster.min_nodes
    /\ cluster.min_nodes <= cluster.current
    /\ cluster.current <= cluster.max_nodes

\* C7 (amended): a created cluster has min = 0 and max = NODE_COUNT; a
\* cluster found by the lookup keeps the bounds it was found with; on both
\* paths 0 <= min <= current <= max holds in every state.
HandleBoundsByPath ==
    compute_target.held =>
        /\ Created => cluster.min_nodes = 0 /\ cluster.max_nodes = NODE_COUNT
        /\ compute_target.hit =>
              /\ cluster.min_nodes = compute_target.seen.min_nodes
              /\ cluster.max_nodes = compute_target.seen.max_nodes
        /\ BoundsOrdered

JobRunningOnCreatedCluster ==
    /\ Created
    /\ run.status = "Running"
    /\ NODE_COUNT >= 1
    /\ run.node_count = NODE_COUNT
    /\ cluster.current = NODE_COUNT

\* C7 (as claimed): on both paths the handle's bounds are min = 0 and
\* max = NODE_COUNT, and 0 <= min <= current <= max holds in every state.
HandleBoundsAreNodeCount ==
    compute_target.held =>
        /\ cluster.min_nodes = 0
        /\ cluster.max_nodes = NODE_COUNT
        /\ BoundsOrdered

\* C8 (as claimed): the bounds of a cluster satisfy 0 <= min <= max, and
\* with NODE_COUNT = 0 the compute cell ends in ConfigurationError with no
\* request sent and no handle returned.
ZeroMaxNodesRejected ==
    /\ cluster.exists => 0 <= cluster.min_nodes /\ cluster.min_nodes <= cluster.max_nodes
    /\ (NODE_COUNT = 0 /\ "compute" \in Range(steps)) =>
          /\ pc = "halted"
          /\ error = <<"compute", "ConfigurationError">>
          /\ requests = 0
          /\ ~compute_target.held

SortedColumns == <<"f1-score", "precision", "recall", "support">>

RowsCarryTheirValues(columns) ==
    LET doc == local_files[Normpath(report_path)]
    IN  /\ table.index = Keys(doc)
        /\ table.columns = columns
        /\ DOMAIN table.cell = Range(table.index) \X Range(table.columns)
        /\ \A l \in Range(table.index), f \in Range(table.columns) :
              table.cell[<<l, f>>] = CellValue(l, f)

\* C9 (amended): the table has one row per key of the document, in document
\* order, each row holding that key's values, with the columns in the order
\* of their names: f1-score, precision, recall, support.
ReportRowsSortedColumns == pc = "done" => RowsCarryTheirValues(SortedColumns)

ReportOfTwoRows ==
    /\ pc = "done"
    /\ Len(table.index) = 2
    /\ Keys(local_files[Normpath(report_path)][1][2]) = ReportOrder

\* C9 (as claimed): as above, with the columns in the order precision,
\* recall, f1-score, support.
ReportColumnsInMetricOrder == pc = "done" => RowsCarryTheirValues(ReportOrder)

JobOver == \A r \in Workers : wpc[r] = "exited"
NoLibraryFailure == \A r \in Workers : raised[r] # "RuntimeError"

\* C10 (as claimed), for a job whose workers have all exited and in which
\* no library call failed: a worker that finished train.py with exit code 0
\* implies the results file is among the run's outputs under the name the
\* retrieval cell requests, and a worker that raised exited nonzero.
SuccessMeansResultsWritten ==
    (JobOver /\ NoLibraryFailure) =>
        \A r \in Workers :
            /\ exit_code[r] = 0 => \A i \in 1..Len(file_names) : file_names[i] \in DOMAIN artifacts
            /\ raised[r] # "" => exit_code[r] # 0

\* range(1, args.epochs + 1) as a sequence
OneToEpochs == [i \in 1..epochs |-> i]

\* the worker has left the training loop by the loop's own exit
PastLoop(r) ==
    \/ wpc[r] \in {"rank", "evaluate", "write"}
    \/ wpc[r] = "exited" /\ raised[r] # "RuntimeError"

\* the worker is in, or has run, the block under if hvd.rank() == 0
InRankZeroBlock(r) ==
    \/ wpc[r] \in {"evaluate", "write"}
    \/ raised[r] = "NameError"
    \/ r \in writers

====
